---- MODULE Spec2Model ----
(***************************************************************************)
(* ldap-proxy: a TCP proxy between LDAP clients and an LDAP server that    *)
(* rectifies packets on the fly (src/ldap-proxy.go).                       *)
(*                                                                         *)
(* Bytes are the integers 0..255 and byte strings are sequences of them.   *)
(* The BER operators follow github.com/go-asn1-ber/asn1-ber, the library   *)
(* the proxy reads and writes packets with; they cover identifiers with a  *)
(* tag number below 31 (one identifier octet), and lengths and integer     *)
(* values of at most three octets (the model checker's integers are 32     *)
(* bits wide; the library's are 64).                                       *)
(***************************************************************************)
EXTENDS Integers, Sequences, FiniteSets, TLC

(***************************************************************************)
(* BER constants of the library, as the proxy uses them.                   *)
(***************************************************************************)
ClassUniversal == 0
TypePrimitive == 0
TypeConstructed == 32
TagEOC == 0
TagInteger == 2
TagSequence == 16
HighTag == 31
LengthLongFormBitmask == 128
LengthIndefinite == -1

\* A packet's Value: <<v>> for the int64 v, Nil when it carries none (Go's nil
\* interface).
Nil == <<>>

\* A nil *Packet: what ber.DecodePacket returns for bytes it cannot read.
NilPacket == [nil |-> TRUE]
IsNilPacket(p) == "nil" \in DOMAIN p

RECURSIVE Pow256(_)
Pow256(n) == IF n = 0 THEN 1 ELSE 256 * Pow256(n - 1)

\* A big-endian unsigned number.
RECURSIVE BigEndian(_)
BigEndian(s) ==
    IF s = <<>> THEN 0
    ELSE 256 * BigEndian(SubSeq(s, 1, Len(s) - 1)) + s[Len(s)]

Drop(s, n) == SubSeq(s, n + 1, Len(s))

\* encodeUnsignedInteger: the minimal big-endian octets of i >= 0 (one octet for 0).
RECURSIVE encodeUnsignedInteger(_)
encodeUnsignedInteger(i) ==
    IF i < 256 THEN <<i>>
    ELSE Append(encodeUnsignedInteger(i \div 256), i % 256)

\* encodeLength: short form up to 127, else the long form with minimal octets.
encodeLength(length) ==
    LET lengthBytes == encodeUnsignedInteger(length)
    IN  IF length > 127 \/ Len(lengthBytes) > 1
        THEN <<LengthLongFormBitmask + Len(lengthBytes)>> \o lengthBytes
        ELSE lengthBytes

\* encodeIdentifier, for a tag number below 31: the class bits, the type bit
\* and the tag number in one octet.
encodeIdentifier(cls, typ, tag) == <<cls + typ + tag>>

\* int64Length: the octets a two's complement integer needs.
RECURSIVE int64Length(_)
int64Length(i) ==
    IF i > 127 \/ i < -128 THEN 1 + int64Length(i \div 256) ELSE 1

\* encodeInteger: minimal two's complement, big-endian.
RECURSIVE lowOctets(_, _)
lowOctets(i, n) ==
    IF n = 0 THEN <<>> ELSE Append(lowOctets(i \div 256, n - 1), i % 256)

encodeInteger(i) == lowOctets(i, int64Length(i))

\* ParseInt64: big-endian two's complement; more than 8 octets is an error and
\* leaves 0 (the caller drops the error).
ParseInt64(content) ==
    IF Len(content) > 8 THEN 0
    ELSE IF content # <<>> /\ content[1] >= 128
         THEN BigEndian(content) - Pow256(Len(content))
         ELSE BigEndian(content)

\* Packet.Bytes: identifier, length of Data in minimal form, Data.
Bytes(p) == encodeIdentifier(p.cls, p.typ, p.tag) \o encodeLength(Len(p.data)) \o p.data

\* ber.Encode with a nil value: an empty packet.
Encode(cls, typ, tag) ==
    [cls |-> cls, typ |-> typ, tag |-> tag, data |-> <<>>, children |-> <<>>,
     value |-> Nil]

\* ber.NewInteger
NewInteger(cls, typ, tag, value) ==
    [cls |-> cls, typ |-> typ, tag |-> tag, data |-> encodeInteger(value),
     children |-> <<>>, value |-> <<value>>]

\* Packet.AppendChild: the child's Bytes go to Data, the child to Children.
AppendChild(p, child) ==
    [p EXCEPT !.data = @ \o Bytes(child), !.children = Append(@, child)]

isEOCPacket(p) ==
    /\ p.cls = ClassUniversal
    /\ p.typ = TypePrimitive
    /\ p.tag = TagEOC
    /\ Len(p.data) = 0

\* readLength: [err, length, read] from the octets after the identifier.
readLength(s) ==
    IF s = <<>> THEN [err |-> TRUE, length |-> 0, read |-> 0]
    ELSE LET b == s[1] IN
         IF b = 255 THEN [err |-> TRUE, length |-> 0, read |-> 1]
         ELSE IF b = LengthLongFormBitmask
              THEN [err |-> FALSE, length |-> LengthIndefinite, read |-> 1]
         ELSE IF b < LengthLongFormBitmask
              THEN [err |-> FALSE, length |-> b, read |-> 1]
         ELSE LET lengthBytes == b - LengthLongFormBitmask IN
              IF lengthBytes > 8 THEN [err |-> TRUE, length |-> 0, read |-> 1]
              ELSE IF Len(s) < 1 + lengthBytes
                   THEN [err |-> TRUE, length |-> 0, read |-> Len(s)]
              ELSE [err |-> FALSE, length |-> BigEndian(SubSeq(s, 2, 1 + lengthBytes)),
                    read |-> 1 + lengthBytes]

\* readHeader: identifier octet and length; an indefinite length needs a
\* constructed type.
readHeader(s) ==
    IF s = <<>> \/ s[1] % 32 = HighTag
    THEN [err |-> TRUE, cls |-> 0, typ |-> 0, tag |-> 0, length |-> 0, read |-> 0]
    ELSE LET l == readLength(Drop(s, 1))
             typ == (s[1] % 64) - (s[1] % 32)
         IN  [err |-> l.err \/ (l.length = LengthIndefinite /\ typ = TypePrimitive),
              cls |-> s[1] - (s[1] % 64), typ |-> typ, tag |-> s[1] % 32,
              length |-> l.length, read |-> 1 + l.read]

\* readPacket: [err, p, read] for the first packet of s. A constructed packet
\* reads child packets until its length is used up (or, with an indefinite
\* length, until the end-of-contents packet); a primitive one takes its content.
RECURSIVE readPacket(_)
RECURSIVE readChildren(_, _, _, _, _)
readChildren(s, p, length, contentRead, read) ==
    IF length # LengthIndefinite /\ contentRead = length
    THEN [err |-> FALSE, p |-> p, read |-> read]
    ELSE IF length # LengthIndefinite /\ contentRead > length
    THEN [err |-> TRUE, p |-> NilPacket, read |-> read]
    ELSE LET c == readPacket(s) IN
         IF c.err THEN [err |-> TRUE, p |-> NilPacket, read |-> read]
         ELSE IF isEOCPacket(c.p)
              THEN [err |-> length # LengthIndefinite,
                    p |-> IF length = LengthIndefinite THEN p ELSE NilPacket,
                    read |-> read + c.read]
         ELSE readChildren(Drop(s, c.read), AppendChild(p, c.p), length,
                           contentRead + c.read, read + c.read)

readPacket(s) ==
    LET h == readHeader(s) IN
    IF h.err THEN [err |-> TRUE, p |-> NilPacket, read |-> h.read]
    ELSE IF h.typ = TypeConstructed
    THEN readChildren(Drop(s, h.read), Encode(h.cls, h.typ, h.tag), h.length, 0, h.read)
    ELSE IF Len(s) < h.read + h.length
    THEN [err |-> TRUE, p |-> NilPacket, read |-> h.read]
    ELSE LET content == SubSeq(s, h.read + 1, h.read + h.length) IN
         [err |-> FALSE,
          p |-> [cls |-> h.cls, typ |-> h.typ, tag |-> h.tag, data |-> content,
                 children |-> <<>>,
                 value |-> IF h.cls = ClassUniversal /\ h.tag = TagInteger
                           THEN <<ParseInt64(content)>> ELSE Nil],
          read |-> h.read + h.length]

\* ber.DecodePacket: the first packet of the bytes, or nil.
DecodePacket(data) == readPacket(data).p

(***************************************************************************)
(* The rectifiers (src/ldap-proxy.go, rectifier, rectifyData,              *)
(* initRectifiers).                                                        *)
(***************************************************************************)
\* The rule the program ships with: "prova", a search request answered with
\* a subschemaSubentry entry, sent back to the client.
provaReq ==
    <<99, 51, 4, 0, 10, 1, 0, 10, 1, 3, 2, 1, 0, 2, 1, 0,
      1, 1, 0, 135, 11, 111, 98, 106, 101, 99, 116, 67, 108, 97, 115, 115,
      48, 19, 4, 17, 115, 117, 98, 115, 99, 104, 101, 109, 97, 83, 117, 98,
      101, 110, 116, 114, 121>>
provaRes ==
    <<100, 38, 4, 0, 48, 34, 48, 32, 4, 17, 115, 117, 98, 115, 99, 104,
      101, 109, 97, 83, 117, 98, 101, 110, 116, 114, 121, 49, 11, 4, 9, 99,
      110, 61, 115, 99, 104, 101, 109, 97>>

rectifier(req, res, sendback) == [req |-> req, res |-> res, sendback |-> sendback]

initRectifiers == <<rectifier(provaReq, provaRes, TRUE)>>

VARIABLES
    rectifiers,  \* the slice initRectifiers returns: the ordered rule table
    rin,         \* a body handed to rectifyData on its own
    rout,        \* what rectifyData returned for rin (<<>> before the call)
    alive,       \* the process is running (FALSE after an unrecovered panic)
    nacc,        \* times ln.Accept has returned; the k-th return is session k
    hpc,         \* per session, where handleConn is
    cstate,      \* per session and side, the state of the proxy's connection
    eof,         \* per session and side, the peer has closed its end
    sent,        \* per session and side, the chunks the peer has sent, in order
    nrd,         \* per session and side, how many of them ReadPacket has consumed
    wire,        \* per session and side, what the proxy has written to the peer:
                 \* by which pump, for which frame (its place n in the source
                 \* stream and its bytes raw), the bytes out and the frame's flags
    pc           \* per session and pump, where handleRequest is

vars == <<rectifiers, rin, rout, alive, nacc, hpc, cstate, eof, sent,
          nrd, wire, pc>>

\* bytes.ContainsAny in the place of bytes.Contains: some byte of sub is in b.
ContainsAny(b, sub) == \E i \in 1..Len(b), j \in 1..Len(sub) : b[i] = sub[j]

\* bytes.Contains: sub occurs in b as a contiguous run (the empty one always does).
Contains(b, sub) ==
    \E i \in 0..(Len(b) - Len(sub)) : SubSeq(b, i + 1, i + Len(sub)) = sub

\* rectifyData's loop from the rule at index i on, with the buffer and the
\* flags so far. rectifiers is the slice initRectifiers returned.
RECURSIVE rectifyFrom(_, _, _, _, _)
rectifyFrom(table, i, b, rectified, sendback) ==
    IF i > Len(table) THEN [b |-> b, rectified |-> rectified, sendback |-> sendback]
    ELSE IF Contains(b, table[i].req)
         THEN rectifyFrom(table, i + 1, table[i].res, TRUE, sendback \/ table[i].sendback)
         ELSE rectifyFrom(table, i + 1, b, rectified, sendback)

\* rectifyData with every rule tested against the input instead of the buffer.
RECURSIVE rectifyInputFrom(_, _, _, _, _, _)
rectifyInputFrom(table, i, input, b, rectified, sendback) ==
    IF i > Len(table) THEN [b |-> b, rectified |-> rectified, sendback |-> sendback]
    ELSE IF Contains(input, table[i].req)
         THEN rectifyInputFrom(table, i + 1, input, table[i].res, TRUE,
                               sendback \/ table[i].sendback)
         ELSE rectifyInputFrom(table, i + 1, input, b, rectified, sendback)

rectifyDataOnInput(table, b) == rectifyInputFrom(table, 1, b, b, FALSE, FALSE)

\* rectifyData with the rule's sendback or-ed in outside the "if": on every
\* rule, matched or not.
rectifyDataSendbackAlways(table, b) ==
    LET r == rectifyFrom(table, 1, b, FALSE, FALSE)
    IN  [r EXCEPT !.sendback = \E i \in 1..Len(table) : table[i].sendback]

\* rectifyData with bytes.Replace in the place of the assignment: the first
\* occurrence of req in the buffer gives way to res, the rest of the buffer stays.
ReplaceFirst(b, req, res) ==
    LET at == {i \in 0..(Len(b) - Len(req)) : SubSeq(b, i + 1, i + Len(req)) = req}
        i == CHOOSE i \in at : \A j \in at : i <= j
    IN  SubSeq(b, 1, i) \o res \o SubSeq(b, i + Len(req) + 1, Len(b))

RECURSIVE rectifyInPlaceFrom(_, _, _, _, _)
rectifyInPlaceFrom(table, i, b, rectified, sendback) ==
    IF i > Len(table) THEN [b |-> b, rectified |-> rectified, sendback |-> sendback]
    ELSE IF Contains(b, table[i].req)
         THEN rectifyInPlaceFrom(table, i + 1, ReplaceFirst(b, table[i].req, table[i].res),
                                 TRUE, sendback \/ table[i].sendback)
         ELSE rectifyInPlaceFrom(table, i + 1, b, rectified, sendback)

rectifyDataInPlace(table, b) == rectifyInPlaceFrom(table, 1, b, FALSE, FALSE)

\* rectifyData, with the table it takes from initRectifiers as a parameter.
rectifyData(table, b) == rectifyFrom(table, 1, b, FALSE, FALSE)

(***************************************************************************)
(* One frame through handleRequest's loop body (lines 150-219).            *)
(***************************************************************************)
Skip == [kind |-> "skip", out |-> <<>>, rectified |-> FALSE, sendback |-> FALSE]
Panic == [kind |-> "panic", out |-> <<>>, rectified |-> FALSE, sendback |-> FALSE]
ReadErr == [kind |-> "error", out |-> <<>>, rectified |-> FALSE, sendback |-> FALSE]
Outgoing(out, rectified, sendback) ==
    [kind |-> "write", out |-> out, rectified |-> rectified, sendback |-> sendback]

\* "Rectify data for *all* children": the loop over packet.Children[1:], from
\* the child at index i on. A nil packet from DecodePacket panics in AppendChild.
RECURSIVE rectifyChildren(_, _, _, _, _, _)
rectifyChildren(table, children, i, rectifiedPacket, rectified, sendback) ==
    IF i > Len(children)
    THEN [panic |-> FALSE, p |-> rectifiedPacket, rectified |-> rectified,
          sendback |-> sendback]
    ELSE LET r == rectifyData(table, Bytes(children[i]))
             child == DecodePacket(r.b)
         IN  IF IsNilPacket(child)
             THEN [panic |-> TRUE, p |-> rectifiedPacket,
                   rectified |-> rectified \/ r.rectified,
                   sendback |-> sendback \/ r.sendback]
             ELSE rectifyChildren(table, children, i + 1,
                                  AppendChild(rectifiedPacket, child),
                                  rectified \/ r.rectified, sendback \/ r.sendback)

\* The header with a fresh messageID in the place of the frame's.
ldapHeaderZero(messageID) ==
    AppendChild(Encode(ClassUniversal, TypeConstructed, TagSequence),
                NewInteger(ClassUniversal, TypePrimitive, TagInteger, 0))

\* "Create ASN.1 LDAP header (SEQUENCE + messageID)"
ldapHeader(messageID) ==
    AppendChild(Encode(ClassUniversal, TypeConstructed, TagSequence),
                NewInteger(ClassUniversal, TypePrimitive, TagInteger, messageID))

\* The flags assigned from each child's result instead of or-ed into: the
\* last child's result stands for the frame.
prepareOutLastChild(table, packet, messageID, useRectifier) ==
    IF useRectifier
    THEN LET r == rectifyChildren(table, packet.children, 2, ldapHeader(messageID),
                                  FALSE, FALSE)
             last == rectifyData(table, Bytes(packet.children[Len(packet.children)]))
         IN  IF r.panic THEN Panic
             ELSE Outgoing(Bytes(r.p), Len(packet.children) > 1 /\ last.rectified,
                           Len(packet.children) > 1 /\ last.sendback)
    ELSE Outgoing(Bytes(packet), FALSE, FALSE)

\* The rectifier branch taken whatever useRectifier is.
prepareOutAlwaysRectify(table, packet, messageID, useRectifier) ==
    LET r == rectifyChildren(table, packet.children, 2, ldapHeader(messageID),
                              FALSE, FALSE)
    IN  IF r.panic THEN Panic ELSE Outgoing(Bytes(r.p), r.rectified, r.sendback)

\* "Prepare outgoing data" for a packet that passed the sanity checks.
prepareOut(table, packet, messageID, useRectifier) ==
    IF useRectifier
    THEN LET r == rectifyChildren(table, packet.children, 2, ldapHeader(messageID),
                                  FALSE, FALSE)
         IN  IF r.panic THEN Panic ELSE Outgoing(Bytes(r.p), r.rectified, r.sendback)
    ELSE Outgoing(Bytes(packet), FALSE, FALSE)

\* "Sanity checks on the packet's children", then the messageID, whose type
\* assertion panics on a Value that is no int64.
handlePacket(table, packet, useRectifier) ==
    IF Len(packet.children) = 0 THEN Skip
    ELSE IF packet.children[1].tag # TagInteger THEN Skip
    ELSE IF packet.children[1].value = Nil THEN Panic
    ELSE prepareOut(table, packet, packet.children[1].value[1], useRectifier)

\* A chunk of the stream through ber.ReadPacket and the loop body.
handleChunk(table, chunk, useRectifier) ==
    LET r == readPacket(chunk)
    IN  IF r.err THEN ReadErr ELSE handlePacket(table, r.p, useRectifier)

\* The routing test without its sendback half.
RouteBackIfRectified(rectified, sendback) == rectified

\* The routing test with "||" in the place of "&&".
RouteBackEither(rectified, sendback) == rectified \/ sendback

\* "if rectified && sendback": write to conn (the source), else to rconn.
RouteBack(rectified, sendback) == rectified /\ sendback

(***************************************************************************)
(* Sessions, connections and pumps (main, handleConn, handleRequest).      *)
(***************************************************************************)
MaxSessions == 2
MaxPeerSteps == 2

Sessions == 1..MaxSessions
Sides == {"client", "server"}

\* The two handleRequest goroutines of a session, by their desc.
ClientToProxy == "client to proxy"
ServerToProxy == "server to proxy"
Pumps == {ClientToProxy, ServerToProxy}

\* handleConn's arguments to handleRequest: conn, rconn, useRectifier.
Source(d) == IF d = ClientToProxy THEN "client" ELSE "server"
Dest(d) == IF d = ClientToProxy THEN "server" ELSE "client"
useRectifier(d) == d = ClientToProxy
Other(d) == IF d = ClientToProxy THEN ServerToProxy ELSE ClientToProxy

\* Frames a peer may send.
\* messageID 2 and the search request the shipped rule matches
frameProva == <<48, 56, 2, 1, 2>> \o provaReq
\* messageID 3 and two octet strings, "A" and "Z"
frameAZ == <<48, 9, 2, 1, 3, 4, 1, 65, 4, 1, 90>>
\* messageID 4 and two octet strings, "Z" and "C"
frameZC == <<48, 9, 2, 1, 4, 4, 1, 90, 4, 1, 67>>
\* an empty envelope: no children
frameEmpty == <<48, 0>>
\* an envelope whose first child is an octet string
frameNoID == <<48, 2, 4, 0>>
\* messageID 1 and an unbind request, the envelope's length in the long form
frameLong == <<48, 129, 5, 2, 1, 1, 66, 0>>
\* a length octet of 0xff
frameBad == <<48, 255>>
\* a first child with tag number 2 in the context-specific class
frameCtxID == <<48, 3, 130, 1, 1>>
\* messageID 5 and the octet string "E"
frameE == <<48, 6, 2, 1, 5, 4, 1, 69>>

ClientFrames ==
    {frameProva, frameAZ, frameZC, frameEmpty, frameNoID, frameLong, frameBad,
     frameCtxID, frameE}
ServerFrames == {frameProva, frameAZ, frameEmpty, frameLong}
FramePool(c) == IF c = "client" THEN ClientFrames ELSE ServerFrames

\* A table with a rule that forwards, a rule that sends back and a rule whose
\* replacement is no BER packet.
customRectifiers ==
    <<rectifier(<<4, 1, 65>>, <<4, 1, 66>>, FALSE),
      rectifier(<<4, 1, 67>>, <<4, 1, 68>>, TRUE),
      rectifier(<<4, 1, 69>>, <<69>>, FALSE)>>

RuleTables == {initRectifiers, customRectifiers}

\* handleChunk for every table, frame and direction of the model, worked out
\* once.
HandledTable ==
    [t \in RuleTables |->
        [f \in ClientFrames \cup ServerFrames |->
            [u \in BOOLEAN |-> handleChunk(t, f, u)]]]

\* What the loop body makes of a chunk under the program's table.
Handled(chunk, u) == HandledTable[rectifiers][chunk][u]

RECURSIVE SumLen(_, _)
SumLen(f, S) ==
    IF S = {} THEN 0
    ELSE LET k == CHOOSE k \in S : TRUE IN Len(f[k]) + SumLen(f, S \ {k})

\* What the peers have done so far, over all connections: frames sent and
\* ends closed.
PeerSteps ==
    SumLen([k \in Sessions \X Sides |-> sent[k[1]][k[2]]], Sessions \X Sides)
    + Cardinality({k \in Sessions \X Sides : eof[k[1]][k[2]]})

\* What a pump reads next, and what it holds after a read.
FrontChunk(buf, n) == buf[n + 1]
CurrentChunk(s, d) == sent[s][Source(d)][nrd[s][Source(d)]]
CurrentOut(s, d) == Handled(CurrentChunk(s, d), useRectifier(d))
Target(d, o) == IF RouteBack(o.rectified, o.sendback) THEN Source(d) ELSE Dest(d)

ProxyInit ==
    /\ alive = TRUE
    /\ nacc = 0
    /\ hpc = [s \in Sessions |-> "none"]
    /\ cstate = [s \in Sessions |-> [c \in Sides |-> "none"]]
    /\ eof = [s \in Sessions |-> [c \in Sides |-> FALSE]]
    /\ sent = [s \in Sessions |-> [c \in Sides |-> <<>>]]
    /\ nrd = [s \in Sessions |-> [c \in Sides |-> 0]]
    /\ wire = [s \in Sessions |-> [c \in Sides |-> <<>>]]
    /\ pc = [s \in Sessions |-> [d \in Pumps |-> "idle"]]

Init ==
    /\ rectifiers \in RuleTables
    /\ rin = <<>>
    /\ rout = <<>>
    /\ ProxyInit

\* main: ln.Accept returns a connection and handleConn is started for it.
Accept ==
    /\ alive
    /\ nacc < MaxSessions
    /\ nacc' = nacc + 1
    /\ hpc' = [hpc EXCEPT ![nacc + 1] = "dial"]
    /\ cstate' = [cstate EXCEPT ![nacc + 1]["client"] = "open"]
    /\ UNCHANGED <<rectifiers, rin, rout, alive, eof, sent, nrd, wire, pc>>

\* main: ln.Accept returns an error, which is logged; the loop continues.
AcceptError ==
    /\ alive
    /\ nacc < MaxSessions
    /\ nacc' = nacc + 1
    /\ hpc' = [hpc EXCEPT ![nacc + 1] = "accepterr"]
    /\ UNCHANGED <<rectifiers, rin, rout, alive, cstate, eof, sent, nrd, wire, pc>>

\* handleConn: net.Dial succeeds and the two handleRequest goroutines start.
DialOK(s) ==
    /\ alive
    /\ hpc[s] = "dial"
    /\ hpc' = [hpc EXCEPT ![s] = "done"]
    /\ cstate' = [cstate EXCEPT ![s]["server"] = "open"]
    /\ pc' = [pc EXCEPT ![s] = [d \in Pumps |-> "read"]]
    /\ UNCHANGED <<rectifiers, rin, rout, alive, nacc, eof, sent, nrd, wire>>

\* The process after an unrecovered panic: every goroutine is gone and the
\* system resets every connection the program had not closed.
KilledPc(q) == IF q \in {"read", "write", "closing"} THEN "killed" ELSE q
ResetConn(c) == IF c = "open" THEN "reset" ELSE c

\* handleConn: net.Dial fails. rconn is nil and rconn.Close() panics with a
\* nil dereference; handleConn recovers nothing, so the process dies.
DialFail(s) ==
    /\ alive
    /\ hpc[s] = "dial"
    /\ hpc' = [hpc EXCEPT ![s] = "panic"]
    /\ alive' = FALSE
    /\ pc' = [t \in Sessions |-> [d \in Pumps |-> KilledPc(pc[t][d])]]
    /\ cstate' = [t \in Sessions |-> [c \in Sides |-> ResetConn(cstate[t][c])]]
    /\ UNCHANGED <<rectifiers, rin, rout, nacc, eof, sent, nrd, wire>>

\* A peer (the client, or the server) sends one frame.
PeerSend(s, c, f) ==
    /\ alive
    /\ cstate[s][c] = "open"
    /\ ~eof[s][c]
    /\ PeerSteps < MaxPeerSteps
    /\ sent' = [sent EXCEPT ![s][c] = Append(@, f)]
    /\ UNCHANGED <<rectifiers, rin, rout, alive, nacc, hpc, cstate, eof,
                   nrd, wire, pc>>

\* A peer closes its end of the connection.
PeerClose(s, c) ==
    /\ alive
    /\ cstate[s][c] = "open"
    /\ ~eof[s][c]
    /\ PeerSteps < MaxPeerSteps
    /\ eof' = [eof EXCEPT ![s][c] = TRUE]
    /\ UNCHANGED <<rectifiers, rin, rout, alive, nacc, hpc, cstate, sent,
                   nrd, wire, pc>>

\* The loop with "return" in the place of the sanity checks' "continue".
AfterReadSkipReturns(o) == IF o.kind = "write" THEN "write" ELSE "closing"

\* The loop going back to ReadPacket without waiting for the write.
AfterReadNoWrite(o) == IF o.kind \in {"skip", "write"} THEN "read" ELSE "closing"

\* The loop without the deferred recover's effect on a panic: the fault is
\* dropped and the loop goes on with the next frame.
AfterReadFaultContinues(o) ==
    CASE o.kind = "write" -> "write"
      [] o.kind = "error" -> "closing"
      [] OTHER -> "read"

\* The loop without the sanity checks' "continue": the frame goes on to the
\* write.
AfterReadSkipWrites(o) == IF o.kind \in {"skip", "write"} THEN "write" ELSE "closing"

\* The loop's "return" without the deferred function: the goroutine ends
\* with nothing closed.
AfterReadNoDefer(o) ==
    CASE o.kind = "skip" -> "read"
      [] o.kind = "write" -> "write"
      [] OTHER -> "done"

\* Where the loop goes after ber.ReadPacket and the loop body, for an outcome.
AfterRead(o) ==
    CASE o.kind = "skip" -> "read"
      [] o.kind = "write" -> "write"
      [] OTHER -> "closing"

\* handleRequest: ber.ReadPacket returns a packet (or a framing error) from
\* bytes that arrived, and the loop body runs up to the write. Bytes that
\* bufio had taken in before the connection was closed are still served.
ReadFrame(s, d) ==
    /\ alive
    /\ pc[s][d] = "read"
    /\ nrd[s][Source(d)] < Len(sent[s][Source(d)])
    /\ LET chunk == FrontChunk(sent[s][Source(d)], nrd[s][Source(d)])
       IN  pc' = [pc EXCEPT ![s][d] = AfterRead(Handled(chunk, useRectifier(d)))]
    /\ nrd' = [nrd EXCEPT ![s][Source(d)] = @ + 1]
    /\ UNCHANGED <<rectifiers, rin, rout, alive, nacc, hpc, cstate, eof,
                   sent, wire>>

\* handleRequest: ber.ReadPacket fails, on a closed connection or at the end
\* of the stream.
ReadError(s, d) ==
    /\ alive
    /\ pc[s][d] = "read"
    /\ \/ cstate[s][Source(d)] # "open"
       \/ /\ eof[s][Source(d)]
          /\ nrd[s][Source(d)] = Len(sent[s][Source(d)])
    /\ pc' = [pc EXCEPT ![s][d] = "closing"]
    /\ UNCHANGED <<rectifiers, rin, rout, alive, nacc, hpc, cstate, eof,
                   sent, nrd, wire>>

\* What a write puts on the connection, after what is there.
Transmit(w, e) == Append(w, e)

\* handleRequest: the write succeeds.
WriteOK(s, d) ==
    /\ alive
    /\ pc[s][d] = "write"
    /\ LET o == CurrentOut(s, d)
           t == Target(d, o)
       IN  /\ cstate[s][t] = "open"
           /\ wire' = [wire EXCEPT ![s][t] =
                  Transmit(@, [by |-> d, n |-> nrd[s][Source(d)],
                               raw |-> CurrentChunk(s, d), out |-> o.out,
                               rectified |-> o.rectified, sendback |-> o.sendback])]
    /\ pc' = [pc EXCEPT ![s][d] = "read"]
    /\ UNCHANGED <<rectifiers, rin, rout, alive, nacc, hpc, cstate, eof,
                   sent, nrd>>

\* handleRequest: the write fails, on a connection that is closed or that the
\* peer has left.
WriteError(s, d) ==
    /\ alive
    /\ pc[s][d] = "write"
    /\ LET t == Target(d, CurrentOut(s, d))
       IN  cstate[s][t] # "open" \/ eof[s][t]
    /\ pc' = [pc EXCEPT ![s][d] = "closing"]
    /\ UNCHANGED <<rectifiers, rin, rout, alive, nacc, hpc, cstate, eof,
                   sent, nrd, wire>>

\* The deferred function closing conn alone.
TeardownConnOnly(s, d) ==
    /\ alive
    /\ pc[s][d] = "closing"
    /\ cstate' = [cstate EXCEPT ![s][Source(d)] = "closed"]
    /\ pc' = [pc EXCEPT ![s][d] = "done"]
    /\ UNCHANGED <<rectifiers, rin, rout, alive, nacc, hpc, eof, sent, nrd, wire>>

\* handleRequest's deferred function: recover, then conn.Close() and
\* rconn.Close().
Teardown(s, d) ==
    /\ alive
    /\ pc[s][d] = "closing"
    /\ cstate' = [cstate EXCEPT ![s] = [c \in Sides |-> "closed"]]
    /\ pc' = [pc EXCEPT ![s][d] = "done"]
    /\ UNCHANGED <<rectifiers, rin, rout, alive, nacc, hpc, eof, sent,
                   nrd, wire>>

PumpStep(s, d) ==
    \/ ReadFrame(s, d)
    \/ ReadError(s, d)
    \/ WriteOK(s, d)
    \/ WriteError(s, d)
    \/ Teardown(s, d)

Next ==
    \/ Accept
    \/ AcceptError
    \/ \E s \in Sessions : DialOK(s)
    \/ \E s \in Sessions : DialFail(s)
    \/ \E s \in Sessions, c \in Sides : \E f \in FramePool(c) : PeerSend(s, c, f)
    \/ \E s \in Sessions, c \in Sides : PeerClose(s, c)
    \/ \E s \in Sessions, d \in Pumps : PumpStep(s, d)

Spec == Init /\ [][Next]_vars

\* The scheduler runs every goroutine that can run, and closing a connection
\* wakes a read or write blocked on it: each pump that can step does.
FairSpec == Spec /\ \A s \in Sessions, d \in Pumps : WF_vars(PumpStep(s, d))

(***************************************************************************)
(* rectifyData on its own: any table of up to MaxRules rules and any body  *)
(* of up to MaxLen bytes over a small alphabet.                            *)
(***************************************************************************)
MaxRules == 2
MaxLen == 3

RECURSIVE Seqs(_, _)
Seqs(S, n) ==
    IF n = 0 THEN {<<>>}
    ELSE LET shorter == Seqs(S, n - 1)
         IN  shorter \cup {Append(q, e) : q \in shorter, e \in S}

\* "A", "B", "x", "y"
BodyBytes == {65, 66, 120, 121}
Bodies == Seqs(BodyBytes, MaxLen)
\* patterns "A", "B", "AB"; replacements "B", "C"
Rules ==
    {rectifier(req, res, sb) :
        req \in {<<65>>, <<66>>, <<65, 66>>}, res \in {<<66>>, <<67>>}, sb \in BOOLEAN}
Tables == Seqs(Rules, MaxRules)

InitRectify ==
    /\ rectifiers \in Tables
    /\ rin \in Bodies
    /\ rout = <<>>
    /\ ProxyInit

RectifyCall ==
    /\ rout = <<>>
    /\ rout' = <<rectifyData(rectifiers, rin)>>
    /\ UNCHANGED <<rectifiers, rin, alive, nacc, hpc, cstate, eof, sent, nrd, wire, pc>>

NextRectify == RectifyCall

SpecRectify == InitRectify /\ [][NextRectify]_vars

(***************************************************************************)
(* The properties.                                                         *)
(***************************************************************************)
\* pat is a contiguous run of b.
Occurs(pat, b) == \E i \in 0..Len(b), j \in 0..Len(b) : i <= j /\ SubSeq(b, i + 1, j) = pat

\* Every write the proxy has made: session, side written to, entry.
Writes ==
    {<<s, c, i>> \in Sessions \X Sides \X (1..MaxPeerSteps) : i <= Len(wire[s][c])}
Entry(w) == wire[w[1]][w[2]][w[3]]

\* C1: every frame a rectifying pump has written went to the connection it
\* was read from if and only if the frame's flags are rectified and sendback,
\* and to the pump's destination otherwise; no frame is written twice, so a
\* frame sent back never reaches the destination.
RoutingDecision ==
    /\ \A w \in Writes :
          useRectifier(Entry(w).by) =>
              /\ (w[2] = Source(Entry(w).by)) <=> (Entry(w).rectified /\ Entry(w).sendback)
              /\ (w[2] = Dest(Entry(w).by)) <=> ~(Entry(w).rectified /\ Entry(w).sendback)
    /\ \A w, v \in Writes :
          (w[1] = v[1] /\ Entry(w).by = Entry(v).by /\ Entry(w).n = Entry(v).n) => w = v

\* A session in which the rectifying pump has sent one frame back and
\* forwarded another, rectified, to the server.
RoutingWitness ==
    \E s \in Sessions :
        /\ \E i \in 1..Len(wire[s]["client"]) :
              /\ wire[s]["client"][i].by = ClientToProxy
              /\ wire[s]["client"][i].sendback
        /\ \E i \in 1..Len(wire[s]["server"]) :
              /\ wire[s]["server"][i].by = ClientToProxy
              /\ wire[s]["server"][i].rectified
              /\ ~wire[s]["server"][i].sendback

\* A pump is gone: it returned through its deferred closure, or the process
\* died under it.
Terminated(s, d) == pc[s][d] \in {"done", "killed"}
\* A connection is down: closed by the program, or reset when the process died.
Down(s, c) == cstate[s][c] \in {"closed", "reset"}

\* C2: once a pump of a session leaves its loop (end of stream, read error,
\* write error or recovered panic), eventually both pumps of the session are
\* gone and both its connections are down.
TeardownPropagates ==
    \A s \in Sessions, d \in Pumps :
        (pc[s][d] \in {"closing", "done"})
            ~> (/\ Terminated(s, d)
                /\ Terminated(s, Other(d))
                /\ Down(s, "client")
                /\ Down(s, "server"))

\* The client closed, the server sent nothing and did not close: the server to
\* proxy pump could only leave its read through the other pump's teardown, and
\* both pumps returned with both connections closed.
TeardownWitness ==
    \E s \in Sessions :
        /\ eof[s]["client"]
        /\ ~eof[s]["server"]
        /\ sent[s]["server"] = <<>>
        /\ pc[s][ClientToProxy] = "done"
        /\ pc[s][ServerToProxy] = "done"
        /\ cstate[s]["client"] = "closed"
        /\ cstate[s]["server"] = "closed"

\* The left-to-right fold over the first k rules of the table, from the body.
RECURSIVE Fold(_, _)
Fold(k, body) ==
    IF k = 0 THEN [b |-> body, rectified |-> FALSE, sendback |-> FALSE]
    ELSE LET prev == Fold(k - 1, body)
         IN  IF Occurs(rectifiers[k].req, prev.b)
             THEN [b |-> rectifiers[k].res, rectified |-> TRUE,
                   sendback |-> prev.sendback \/ rectifiers[k].sendback]
             ELSE prev

\* The table [{A->B, false}, {B->C, true}] and the input "xAy".
ChainTable == <<rectifier(<<65>>, <<66>>, FALSE), rectifier(<<66>>, <<67>>, TRUE)>>
ChainInput == <<120, 65, 121>>

\* C3: rectifyData returns the sequential left-to-right fold of the table
\* over the body, each rule tested against the buffer the earlier rules left;
\* for [{A->B, false}, {B->C, true}] and "xAy" that is ("C", true, true).
RuleChaining ==
    rout # <<>> =>
        /\ rout[1] = Fold(Len(rectifiers), rin)
        /\ (rectifiers = ChainTable /\ rin = ChainInput) =>
              rout[1] = [b |-> <<67>>, rectified |-> TRUE, sendback |-> TRUE]

\* rectifyData has returned for the chaining example.
RuleChainingWitness ==
    /\ rectifiers = ChainTable
    /\ rin = ChainInput
    /\ rout # <<>>
    /\ rout[1].b = <<67>>

\* No rule's pattern occurs in the body.
NoPatternOccurs(body) == \A k \in 1..Len(rectifiers) : ~Occurs(rectifiers[k].req, body)

\* C4: when no rule's pattern occurs in the body as a contiguous run,
\* rectifyData returns the body unchanged with both flags false.
NoMatchNoEffect ==
    (rout # <<>> /\ NoPatternOccurs(rin)) =>
        rout[1] = [b |-> rin, rectified |-> FALSE, sendback |-> FALSE]

\* rectifyData has returned for a body that holds the bytes of the pattern
\* "AB" apart ("AxB") under a table whose rules all ask for "AB".
NoMatchWitness ==
    /\ rout # <<>>
    /\ rin = <<65, 120, 66>>
    /\ Len(rectifiers) = 2
    /\ \A k \in 1..Len(rectifiers) : rectifiers[k].req = <<65, 66>>
    /\ NoPatternOccurs(rin)

\* C5: every frame a pump without the rectifier has written went out as the
\* very bytes that were read (Frame.raw).
DisabledPassthrough ==
    \A w \in Writes : ~useRectifier(Entry(w).by) => Entry(w).out = Entry(w).raw

\* The envelope of a chunk has no content, or its first child does not carry
\* the integer tag number: read off the raw bytes.
IsAnomaly(chunk) ==
    LET h == readHeader(chunk)
    IN  /\ ~h.err
        /\ \/ h.length = 0
           \/ /\ Len(chunk) > h.read
              /\ chunk[h.read + 1] % 32 # TagInteger

\* Pump d of session s reads a chunk in this step.
Reads(s, d) == pc[s][d] = "read" /\ nrd'[s][Source(d)] = nrd[s][Source(d)] + 1

\* C6: a pump that reads a frame with no children, or whose first child does
\* not carry the integer tag, stays in its loop at the read; the step closes
\* no connection and writes nothing, and uses up that frame alone, so that the
\* next frame of the stream is the next one read.
SkipAndContinue ==
    [][\A s \in Sessions, d \in Pumps :
          (Reads(s, d) /\ IsAnomaly(FrontChunk(sent[s][Source(d)], nrd[s][Source(d)])))
              => /\ pc'[s][d] = "read"
                 /\ cstate' = cstate
                 /\ wire' = wire
                 /\ sent' = sent]_vars

\* A pump skipped the first frame of its stream and has read, processed and
\* written the second.
SkipWitness ==
    \E s \in Sessions, d \in Pumps :
        /\ Len(sent[s][Source(d)]) = 2
        /\ IsAnomaly(sent[s][Source(d)][1])
        /\ \E c \in Sides : \E i \in 1..Len(wire[s][c]) :
              wire[s][c][i].by = d /\ wire[s][c][i].n = 2
        /\ pc[s][d] = "read"
        /\ cstate[s]["client"] = "open"
        /\ cstate[s]["server"] = "open"

\* C7: after a failed dial for a session, handleConn has closed the client
\* connection, has started no pump and has not dialled again.
DialFailureClosesClient ==
    \A s \in Sessions :
        hpc[s] = "panic" =>
            /\ cstate[s]["client"] = "closed"
            /\ cstate[s]["server"] = "none"
            /\ \A d \in Pumps : pc[s][d] = "idle"

\* A session has failed: its accept or its dial failed, or one of its pumps
\* left its loop.
SessionFailed(s) ==
    \/ hpc[s] \in {"accepterr", "panic"}
    \/ \E d \in Pumps : pc[s][d] \in {"closing", "done", "killed"}

\* C8: after any session has failed, the accept loop still runs and can
\* accept the next connection.
AcceptLoopSurvives ==
    (\E s \in Sessions : SessionFailed(s)) =>
        /\ alive
        /\ nacc < MaxSessions => ENABLED Accept

\* The raw bytes of the children of a chunk's envelope, from the child at
\* offset off on.
RECURSIVE RawChildrenFrom(_, _)
RawChildrenFrom(chunk, off) ==
    IF off >= Len(chunk) THEN <<>>
    ELSE LET r == readPacket(Drop(chunk, off))
         IN  IF r.err \/ r.read = 0 THEN <<>>
             ELSE <<SubSeq(chunk, off + 1, off + r.read)>>
                      \o RawChildrenFrom(chunk, off + r.read)
RawChildren(chunk) == RawChildrenFrom(chunk, readHeader(chunk).read)

\* C9: in every frame a rectifying pump has written, each child after the
\* messageID in which no rule's pattern occurs is in the outgoing bytes as it
\* was received, and a frame with no child rectified went out byte for byte as
\* it was received.
BytePreservation ==
    \A w \in Writes :
        useRectifier(Entry(w).by) =>
            /\ \A k \in 2..Len(RawChildren(Entry(w).raw)) :
                  NoPatternOccurs(RawChildren(Entry(w).raw)[k])
                      => Occurs(RawChildren(Entry(w).raw)[k], Entry(w).out)
            /\ ~Entry(w).rectified => Entry(w).out = Entry(w).raw

\* The places in its source stream of the frames pump d of session s has
\* written to side c, in the order of the writes.
RECURSIVE PlacesOf(_, _)
PlacesOf(w, d) ==
    IF w = <<>> THEN <<>>
    ELSE IF Head(w).by = d THEN <<Head(w).n>> \o PlacesOf(Tail(w), d)
    ELSE PlacesOf(Tail(w), d)

Increasing(q) == \A i, j \in 1..Len(q) : i < j => q[i] < q[j]
Range(q) == {q[i] : i \in 1..Len(q)}

\* C10: what a pump has written to its destination is, in the order read, the
\* frames it has read less those it skipped and those it sent back, each with
\* the bytes it was read with; only the frame read last can be outstanding,
\* and not when the pump is back at its read.
InOrderForwarding ==
    \A s \in Sessions, d \in Pumps :
        LET src == sent[s][Source(d)]
            fwd == PlacesOf(wire[s][Dest(d)], d)
            back == PlacesOf(wire[s][Source(d)], d)
            last == nrd[s][Source(d)]
        IN  /\ Increasing(fwd)
            /\ \A i \in 1..Len(wire[s][Dest(d)]) :
                  wire[s][Dest(d)][i].by = d
                      => wire[s][Dest(d)][i].raw = src[wire[s][Dest(d)][i].n]
            /\ \A n \in 1..Len(src) :
                  n \in Range(fwd) =>
                      n <= last /\ ~IsAnomaly(src[n]) /\ n \notin Range(back)
            /\ \A n \in 1..last :
                  \/ n \in Range(fwd)
                  \/ n \in Range(back)
                  \/ IsAnomaly(src[n])
                  \/ n = last /\ pc[s][d] # "read"

\* A pump has forwarded the two frames of its stream, and they lie on the
\* destination in the order they were read.
InOrderWitness ==
    \E s \in Sessions, d \in Pumps :
        /\ Len(sent[s][Source(d)]) = 2
        /\ sent[s][Source(d)][1] # sent[s][Source(d)][2]
        /\ PlacesOf(wire[s][Dest(d)], d) = <<1, 2>>
        /\ wire[s][Dest(d)][1].raw = sent[s][Source(d)][1]
        /\ wire[s][Dest(d)][2].raw = sent[s][Source(d)][2]

\* A parsed frame raises a run-time fault in the loop body: its first child
\* carries the integer tag number but no int64 Value (the type assertion
\* panics), or, under the rectifier, what rectifyData returned for a child is
\* no BER packet (DecodePacket gives nil and AppendChild panics).
IsFault(table, chunk, u) ==
    LET r == readPacket(chunk)
    IN  /\ ~r.err
        /\ Len(r.p.children) > 0
        /\ r.p.children[1].tag = TagInteger
        /\ \/ r.p.children[1].value = Nil
           \/ /\ u
              /\ \E k \in 2..Len(r.p.children) :
                    readPacket(rectifyData(table, Bytes(r.p.children[k])).b).err

FaultTable ==
    [t \in RuleTables |->
        [f \in ClientFrames \cup ServerFrames |->
            [u \in BOOLEAN |-> IsFault(t, f, u)]]]
Faulty(chunk, u) == FaultTable[rectifiers][chunk][u]

\* The frame pump d of session s read last raised a fault.
Faulted(s, d) ==
    /\ nrd[s][Source(d)] > 0
    /\ pc[s][d] # "idle"
    /\ Faulty(CurrentChunk(s, d), useRectifier(d))

\* C11: a fault raised while a pump processes a frame is caught in the pump:
\* the step leaves the process running, writes nothing and closes nothing, and
\* takes the pump out of its loop; nothing is ever written for that frame; and
\* the pump goes on to return with both connections of its session closed
\* (unless the process has ended meanwhile for another reason).
FaultIsCaught ==
    /\ [][\A s \in Sessions, d \in Pumps :
             (Reads(s, d) /\ Faulty(FrontChunk(sent[s][Source(d)], nrd[s][Source(d)]),
                                    useRectifier(d)))
                 => /\ alive'
                    /\ pc'[s][d] = "closing"
                    /\ wire' = wire
                    /\ cstate' = cstate]_vars
    /\ [](\A s \in Sessions, d \in Pumps :
             Faulted(s, d) =>
                 \A c \in Sides : \A i \in 1..Len(wire[s][c]) :
                     ~(wire[s][c][i].by = d /\ wire[s][c][i].n = nrd[s][Source(d)]))
    /\ \A s \in Sessions, d \in Pumps :
          Faulted(s, d)
              ~> (\/ ~alive
                  \/ /\ pc[s][d] = "done"
                     /\ cstate[s]["client"] = "closed"
                     /\ cstate[s]["server"] = "closed")

\* The rectifying pump read a frame whose child was replaced by bytes that
\* are no BER packet, the process is running, and the pump has returned with
\* both connections closed and nothing written.
FaultWitness ==
    \E s \in Sessions :
        /\ alive
        /\ nrd[s]["client"] = 1
        /\ sent[s]["client"][1] = frameE
        /\ rectifiers = customRectifiers
        /\ Faulted(s, ClientToProxy)
        /\ pc[s][ClientToProxy] = "done"
        /\ cstate[s]["client"] = "closed"
        /\ cstate[s]["server"] = "closed"
        /\ wire[s]["client"] = <<>>
        /\ wire[s]["server"] = <<>>

\* Session s meets a fatal condition in this step: its dial fails, or one of
\* its pumps leaves its loop (read or write error, framing error, fault) or
\* runs its deferred closure.
FatalStep(s) ==
    \/ hpc[s] = "dial" /\ hpc'[s] = "panic"
    \/ \E d \in Pumps : pc'[s][d] # pc[s][d] /\ pc'[s][d] \in {"closing", "done"}

\* C12: a step in which one session meets a fatal condition closes no
\* connection of, ends no pump of and changes no forwarded bytes of any other
\* session.
SessionIsolation ==
    [][\A s, t \in Sessions :
          (s # t /\ FatalStep(s))
              => /\ cstate'[t] = cstate[t]
                 /\ pc'[t] = pc[t]
                 /\ wire'[t] = wire[t]]_vars

\* The pumps that have written to side c of session s.
WritersOf(s, c) == {wire[s][c][i].by : i \in 1..Len(wire[s][c])}

\* C13 as stated: each connection of a session is written by at most one of
\* the session's two pumps.
ExclusiveWriter ==
    \A s \in Sessions, c \in Sides : Cardinality(WritersOf(s, c)) <= 1

\* C13 amended: the server connection is written by the client to proxy pump
\* alone; the client connection is written by the server to proxy pump and, for
\* the frames rectified with sendback and for no other, by the client to proxy
\* pump.
WriterOwnership ==
    \A s \in Sessions :
        /\ WritersOf(s, "server") \subseteq {ClientToProxy}
        /\ \A i \in 1..Len(wire[s]["client"]) :
              \/ wire[s]["client"][i].by = ServerToProxy
              \/ /\ wire[s]["client"][i].by = ClientToProxy
                 /\ wire[s]["client"][i].rectified
                 /\ wire[s]["client"][i].sendback

\* Both pumps of a session have written to its client connection: one a
\* frame of the server, the other a reply sent back.
SharedClientWitness ==
    \E s \in Sessions :
        /\ WritersOf(s, "client") = Pumps
        /\ \E i \in 1..Len(wire[s]["client"]) :
              /\ wire[s]["client"][i].by = ClientToProxy
              /\ wire[s]["client"][i].sendback

\* Pump d of session s has written something, to either connection, for the
\* frame at place n of its source stream.
WroteFor(s, d, n) ==
    \E c \in Sides : \E i \in 1..Len(wire[s][c]) :
        wire[s][c][i].by = d /\ wire[s][c][i].n = n

\* C14: for a frame with no children, or whose first child does not carry the
\* integer tag, a pump writes nothing to either connection, in either
\* direction, with the rectifier or without.
NoWriteForAnomaly ==
    \A s \in Sessions, d \in Pumps :
        \A n \in 1..nrd[s][Source(d)] :
            IsAnomaly(sent[s][Source(d)][n]) => ~WroteFor(s, d, n)

\* Both pumps of a session have read such a frame and are back at the read,
\* and nothing is on either connection.
NoWriteWitness ==
    \E s \in Sessions :
        /\ \A d \in Pumps :
              /\ nrd[s][Source(d)] = 1
              /\ IsAnomaly(sent[s][Source(d)][1])
              /\ pc[s][d] = "read"
        /\ wire[s]["client"] = <<>>
        /\ wire[s]["server"] = <<>>

\* The records the rules of the table can put in the place of a child.
Replacements ==
    {Bytes(DecodePacket(rectifiers[j].res)) :
        j \in {i \in 1..Len(rectifiers) : ~readPacket(rectifiers[i].res).err}}

\* C15: every frame the rectifying pump has written is one universal
\* sequence that holds the messageID of the frame read and then one record for
\* each further child of the frame read, in the order of the children, each the
\* child itself or the record a rule replaces it with.
EnvelopeRebuild ==
    \A w \in Writes :
        useRectifier(Entry(w).by) =>
            LET inp == readPacket(Entry(w).raw).p
                o == readPacket(Entry(w).out)
            IN  /\ ~o.err
                /\ o.read = Len(Entry(w).out)
                /\ <<o.p.cls, o.p.typ, o.p.tag>> = <<ClassUniversal, TypeConstructed, TagSequence>>
                /\ Len(o.p.children) = Len(inp.children)
                /\ o.p.children[1].tag = TagInteger
                /\ o.p.children[1].value = inp.children[1].value
                /\ \A k \in 2..Len(inp.children) :
                      \/ Bytes(o.p.children[k]) = Bytes(inp.children[k])
                      \/ Bytes(o.p.children[k]) \in Replacements

\* The rectifying pump has written the frame with messageID 3 and the
\* children "A" and "Z" as messageID 3, the replacement "B" and "Z".
EnvelopeWitness ==
    \E w \in Writes :
        /\ useRectifier(Entry(w).by)
        /\ Entry(w).raw = frameAZ
        /\ Entry(w).out = <<48, 9, 2, 1, 3, 4, 1, 66, 4, 1, 90>>

\* What rectifyData makes of child k of a frame, taken on its own.
ChildResult(raw, k) == rectifyData(rectifiers, Bytes(readPacket(raw).p.children[k]))
BodyChildren(raw) == 2..Len(readPacket(raw).p.children)

\* C16: for every frame the rectifying pump has written, the frame is
\* rectified exactly if some child after the messageID was, its sendback flag
\* is set exactly if some child's result asked for it, it went back to its
\* source exactly in that case, and each record of the outgoing envelope is what
\* rectifyData returns for its own child alone.
ChildFlagsOr ==
    \A w \in Writes :
        useRectifier(Entry(w).by) =>
            LET raw == Entry(w).raw
                o == readPacket(Entry(w).out).p
            IN  /\ Entry(w).rectified <=> \E k \in BodyChildren(raw) : ChildResult(raw, k).rectified
                /\ Entry(w).sendback <=> \E k \in BodyChildren(raw) : ChildResult(raw, k).sendback
                /\ (w[2] = Source(Entry(w).by))
                      <=> \E k \in BodyChildren(raw) : ChildResult(raw, k).sendback
                /\ \A k \in BodyChildren(raw) :
                      Bytes(o.children[k]) = Bytes(DecodePacket(ChildResult(raw, k).b))

\* The rectifying pump has sent back the frame with the children "Z" and "C":
\* the first is not rectified and is in the reply as it was, the second is
\* rectified with sendback.
ChildFlagsWitness ==
    \E s \in Sessions : \E i \in 1..Len(wire[s]["client"]) :
        /\ wire[s]["client"][i].by = ClientToProxy
        /\ wire[s]["client"][i].raw = frameZC
        /\ ~ChildResult(frameZC, 2).rectified
        /\ ChildResult(frameZC, 3).sendback
        /\ wire[s]["client"][i].out = <<48, 9, 2, 1, 4, 4, 1, 90, 4, 1, 68>>

\* The lifecycle state of a pump: Running in its loop (at the read or at the
\* write), Closing in its deferred function, Terminated once it has returned;
\* "none" before handleConn has started it and after the process has ended.
Life(q) ==
    CASE q \in {"read", "write"} -> "Running"
      [] q = "closing" -> "Closing"
      [] q = "done" -> "Terminated"
      [] OTHER -> "none"

LifeSteps ==
    {<<"none", "none">>, <<"none", "Running">>, <<"Running", "Running">>,
     <<"Running", "Closing">>, <<"Closing", "Closing">>, <<"Closing", "Terminated">>,
     <<"Terminated", "Terminated">>}

\* C17: a pump starts Running (at its read) when handleConn starts it; while
\* the process runs its lifecycle state only goes Running to Running, Running to
\* Closing and Closing to Terminated; Terminated is never left; a Terminated pump
\* reads nothing and writes nothing more; and whenever a pump is Terminated both
\* connections of its session are closed. (A pump of a process that has ended
\* is in no state: it stops where it is.)
PumpLifecycle ==
    /\ [][\A s \in Sessions, d \in Pumps :
             /\ alive' => <<Life(pc[s][d]), Life(pc'[s][d])>> \in LifeSteps
             /\ (pc[s][d] = "idle" /\ pc'[s][d] # "idle") => pc'[s][d] = "read"
             /\ pc[s][d] = "done" =>
                    /\ pc'[s][d] = "done"
                    /\ nrd'[s][Source(d)] = nrd[s][Source(d)]
                    /\ \A c \in Sides : PlacesOf(wire'[s][c], d) = PlacesOf(wire[s][c], d)]_vars
    /\ [](\A s \in Sessions, d \in Pumps :
             pc[s][d] = "done" =>
                 cstate[s]["client"] = "closed" /\ cstate[s]["server"] = "closed")

\* A pump has forwarded a frame, then left its loop and returned: it is
\* Terminated with both connections closed.
LifecycleWitness ==
    \E s \in Sessions, d \in Pumps :
        /\ pc[s][d] = "done"
        /\ WroteFor(s, d, 1)
        /\ cstate[s]["client"] = "closed"
        /\ cstate[s]["server"] = "closed"

\* C18: every write of a pump without the rectifier went to the pump's
\* destination, with neither flag set; with handleConn's configuration the
\* server connection is written by the client to proxy pump alone, and nothing
\* on it is a frame sent back.
DisabledNeverRoutesBack ==
    /\ \A w \in Writes :
          ~useRectifier(Entry(w).by) =>
              /\ w[2] = Dest(Entry(w).by)
              /\ ~Entry(w).rectified
              /\ ~Entry(w).sendback
    /\ \A s \in Sessions : \A i \in 1..Len(wire[s]["server"]) :
          /\ wire[s]["server"][i].by = ClientToProxy
          /\ ~(wire[s]["server"][i].rectified /\ wire[s]["server"][i].sendback)

\* The server has sent the very frame the shipped rule sends back, and the
\* server to proxy pump has written it to the client; the server connection
\* carries nothing.
DisabledWitness ==
    \E s \in Sessions : \E i \in 1..Len(wire[s]["client"]) :
        /\ wire[s]["client"][i].by = ServerToProxy
        /\ wire[s]["client"][i].raw = frameProva
        /\ Contains(frameProva, rectifiers[1].req)
        /\ wire[s]["server"] = <<>>

\* C19: what rectifyData returns has sendback only with rectified, for every
\* table and body; so have the flags of every frame of the model under every
\* table of the model, in either direction; and on such flags the routing test
\* "rectified && sendback" is sendback alone.
SendbackImpliesRectified ==
    /\ rout # <<>> =>
          /\ rout[1].sendback => rout[1].rectified
          /\ RouteBack(rout[1].rectified, rout[1].sendback) = rout[1].sendback
    /\ \A t \in RuleTables, f \in ClientFrames \cup ServerFrames, u \in BOOLEAN :
          LET o == HandledTable[t][f][u]
          IN  /\ o.sendback => o.rectified
              /\ RouteBack(o.rectified, o.sendback) = o.sendback

\* rectifyData has returned under a table whose first rule asks for sendback
\* and did not fire and whose second rule fired: rectified without sendback.
SendbackWitness ==
    /\ rout # <<>>
    /\ Len(rectifiers) = 2
    /\ rectifiers[1].sendback
    /\ ~Occurs(rectifiers[1].req, rin)
    /\ ~rectifiers[2].sendback
    /\ rout[1].rectified
    /\ ~rout[1].sendback

\* The rules that fired on the body: rule k fires when its pattern occurs in
\* the buffer the rules before it left.
Fired(body) ==
    {k \in 1..Len(rectifiers) : Occurs(rectifiers[k].req, Fold(k - 1, body).b)}
Last(S) == CHOOSE k \in S : \A j \in S : j <= k

\* C20: rectifyData returns rectified exactly if some rule fired; the body
\* it returns is the input when none did, and otherwise the replacement of the
\* last rule that fired, whole and alone.
WholeBufferReplacement ==
    rout # <<>> =>
        /\ rout[1].rectified <=> Fired(rin) # {}
        /\ ~rout[1].rectified => rout[1].b = rin
        /\ rout[1].rectified => rout[1].b = rectifiers[Last(Fired(rin))].res

\* rectifyData has returned "B" for the body "xAy" under the one rule A->B:
\* "x" and "y" are gone.
WholeBufferWitness ==
    /\ rout # <<>>
    /\ Len(rectifiers) = 1
    /\ rectifiers[1].req = <<65>>
    /\ rectifiers[1].res = <<66>>
    /\ rin = <<120, 65, 121>>
    /\ rout[1].b = <<66>>
====
